---- MODULE Spec2Model ----
(***************************************************************************)
(* Model of app_v2.py: bicycle-counter statistics.  Time ranges, count     *)
(* histories, the ranking engine, fact extraction and the Eco-counter      *)
(* ingestion boundary.                                                     *)
(*                                                                         *)
(* Python objects without __eq__/__hash__ (every TimeRange class) are      *)
(* records carrying an object identity `oid`: two ranges are the same      *)
(* dictionary key only when they are the same object.  Dictionaries are    *)
(* sequences of [key, value] entries in insertion order.                   *)
(***************************************************************************)
EXTENDS Integers, Sequences, FiniteSets, TLC

VARIABLES
    quantity,        \* human_rank_in_list: the queried value
    list_,           \* human_rank_in_list: the population
    rank_result,     \* human_rank_in_list: what the call returned
    heap,            \* number of objects allocated so far (next oid = heap + 1)
    base_mapping,    \* the mapping a count history is built from
    count_history,   \* the DailyCountHistory / HourlyCountHistory built
    among_range,     \* extract_relevant_facts: the containing range
    target_range,    \* extract_relevant_facts: the target day
    facts_result,    \* extract_relevant_facts: the facts, or the error raised
    status_code,     \* download_count_history: status of the HTTP answer
    answer,          \* download_count_history: the decoded body of the answer
    download_result, \* download_count_history: the history built, or the error raised
    construct_date,  \* TimeRange construction: the instant handed to the constructor
    construct_result, \* TimeRange construction: the range built, or the error raised
    render_facts,    \* relevant_facts_to_string: the list of facts
    render_language, \* relevant_facts_to_string: the language
    render_time,     \* relevant_facts_to_string: the time of publication
    render_dictionary, \* relevant_facts_to_string: the dictionary
    render_result,   \* relevant_facts_to_string: the sentence, or the error raised
    json_dictionary, \* Dictionary.from_json: the decoded JSON value
    from_json_result \* Dictionary.from_json: the Dictionary built, or the error raised

vars == <<quantity, list_, rank_result, heap, base_mapping, count_history,
          among_range, target_range, facts_result, status_code, answer,
          download_result, construct_date, construct_result, render_facts,
          render_language, render_time, render_dictionary, render_result,
          json_dictionary, from_json_result>>

rank_vars == <<quantity, list_, rank_result>>
facts_vars == <<heap, base_mapping, count_history, among_range, target_range, facts_result>>
download_vars == <<status_code, answer, download_result>>
construct_vars == <<construct_date, construct_result>>
json_vars == <<json_dictionary, from_json_result>>
render_vars ==
    <<render_facts, render_language, render_time, render_dictionary, render_result>>

-----------------------------------------------------------------------------
(* Bounds of the model *)

MaxValue == 5     \* largest count in a ranked population
MaxLen == 4       \* longest ranked population
MaxCount == 2     \* largest count of one day or hour of a history
MaxDays == 3      \* most base ranges (days or hours) in one history
MaxFacts == 3      \* longest list of facts handed to relevant_facts_to_string
MaxPriority == 1   \* largest priority of a fact
MaxAnswerLen == 3 \* longest fetched answer

-----------------------------------------------------------------------------
(* Sequences *)

RECURSIVE SumSeq(_)
SumSeq(s) == IF s = <<>> THEN 0 ELSE Head(s) + SumSeq(Tail(s))

RECURSIVE SeqsUpTo(_, _)
SeqsUpTo(S, n) ==
    IF n = 0 THEN {<<>>}
    ELSE LET shorter == SeqsUpTo(S, n - 1)
         IN shorter \cup {Append(s, x) : s \in {t \in shorter : Len(t) = n - 1}, x \in S}

CountIn(s, P(_)) == Cardinality({i \in 1..Len(s) : P(s[i])})

Permutations_(s) ==
    {[i \in 1..Len(s) |-> s[p[i]]] :
        p \in {f \in [1..Len(s) -> 1..Len(s)] : \A i, j \in 1..Len(s) : f[i] = f[j] => i = j}}

-----------------------------------------------------------------------------
(* Ranking engine: human_rank_in_list *)

PosInf == [inf |-> 1, val |-> 0]
NegInf == [inf |-> -1, val |-> 0]
Num(n) == [inf |-> 0, val |-> n]

Gt(a, b) == a.inf > b.inf \/ (a.inf = 0 /\ b.inf = 0 /\ a.val > b.val)

RECURSIVE InsertDesc(_, _)
InsertDesc(x, s) ==
    IF s = <<>> THEN <<x>>
    ELSE IF x >= Head(s) THEN <<x>> \o s
    ELSE <<Head(s)>> \o InsertDesc(x, Tail(s))

RECURSIVE SortedReverse(_)
SortedReverse(s) == IF s = <<>> THEN <<>> ELSE InsertDesc(Head(s), SortedReverse(Tail(s)))

PaddedSortedList(l) ==
    <<PosInf>> \o [i \in 1..Len(l) |-> Num(SortedReverse(l)[i])] \o <<NegInf>>

\* indices are the code's 0-based ones: sorted_list[i] is sl[i + 1]
RECURSIVE BinarySearch(_, _, _, _)
BinarySearch(sl, q, left, right) ==
    IF left < right - 1
    THEN LET middle == (left + right) \div 2
         IN IF Gt(sl[middle + 1], q)
            THEN BinarySearch(sl, q, middle, right)
            ELSE BinarySearch(sl, q, left, middle)
    ELSE right

RECURSIVE CountTies(_, _, _, _)
CountTies(sl, q, right, nb_ties) ==
    IF right < Len(sl) /\ sl[right + 1] = q
    THEN CountTies(sl, q, right + 1, nb_ties + 1)
    ELSE nb_ties

TiesReturnedUnshifted(nb_ties) == nb_ties

ReturnedTies(nb_ties) == nb_ties - 1

HumanRankInList(q, l) ==
    LET sorted_list == PaddedSortedList(l)
        rank == BinarySearch(sorted_list, Num(q), 0, Len(sorted_list) - 1)
        nb_ties == CountTies(sorted_list, Num(q), rank, 0)
    IN [rank |-> rank, ties |-> ReturnedTies(nb_ties)]

NoRank == [done |-> FALSE, rank |-> 0, ties |-> 0]

CallHumanRankInList ==
    /\ ~rank_result.done
    /\ rank_result' = [done |-> TRUE,
                       rank |-> HumanRankInList(quantity, list_).rank,
                       ties |-> HumanRankInList(quantity, list_).ties]
    /\ UNCHANGED <<quantity, list_>>

-----------------------------------------------------------------------------
(* datetime: the calendar arithmetic the code relies on *)

\* datetime(y, m, d, h, mi, s): the microsecond defaults to 0
DateTime(y, m, d, h, mi, s) ==
    [year |-> y, month |-> m, day |-> d, hour |-> h, minute |-> mi, second |-> s,
     microsecond |-> 0]

\* datetime.replace(microsecond=us)
ReplaceMicrosecond(dt, us) == [dt EXCEPT !.microsecond = us]

Date(y, m, d) == DateTime(y, m, d, 0, 0, 0)

IsLeap(y) == (y % 4 = 0 /\ y % 100 # 0) \/ y % 400 = 0

DaysInMonth(y, m) ==
    IF m = 2 THEN (IF IsLeap(y) THEN 29 ELSE 28)
    ELSE IF m \in {4, 6, 9, 11} THEN 30 ELSE 31

RECURSIVE DaysBeforeMonth(_, _)
DaysBeforeMonth(y, m) ==
    IF m = 1 THEN 0 ELSE DaysBeforeMonth(y, m - 1) + DaysInMonth(y, m - 1)

DaysBeforeYear(y) ==
    (y - 1) * 365 + ((y - 1) \div 4) - ((y - 1) \div 100) + ((y - 1) \div 400)

ToOrdinal(dt) == DaysBeforeYear(dt.year) + DaysBeforeMonth(dt.year, dt.month) + dt.day

\* datetime.weekday(): Monday is 0
Weekday(dt) == (ToOrdinal(dt) + 6) % 7

\* dt + timedelta(days=1)
PlusOneDay(dt) ==
    IF dt.day < DaysInMonth(dt.year, dt.month) THEN [dt EXCEPT !.day = dt.day + 1]
    ELSE IF dt.month < 12 THEN [dt EXCEPT !.day = 1, !.month = dt.month + 1]
    ELSE [dt EXCEPT !.day = 1, !.month = 1, !.year = dt.year + 1]

\* dt + timedelta(hours=1)
PlusOneHour(dt) ==
    IF dt.hour < 23 THEN [dt EXCEPT !.hour = dt.hour + 1]
    ELSE [PlusOneDay(dt) EXCEPT !.hour = 0]

\* dt - timedelta(days=1)
MinusOneDay(dt) ==
    IF dt.day > 1 THEN [dt EXCEPT !.day = dt.day - 1]
    ELSE IF dt.month > 1
    THEN [dt EXCEPT !.day = DaysInMonth(dt.year, dt.month - 1), !.month = dt.month - 1]
    ELSE [dt EXCEPT !.day = 31, !.month = 12, !.year = dt.year - 1]

\* dt.date()
DateOf(dt) == <<dt.year, dt.month, dt.day>>

DateTimeKey(dt) ==
    <<dt.year, dt.month, dt.day, dt.hour, dt.minute, dt.second, dt.microsecond>>

RECURSIVE TupleLess(_, _)
TupleLess(a, b) ==
    /\ a # <<>>
    /\ \/ Head(a) < Head(b)
       \/ (Head(a) = Head(b) /\ TupleLess(Tail(a), Tail(b)))

\* a < b and a <= b on datetimes
Before(a, b) == TupleLess(DateTimeKey(a), DateTimeKey(b))
NotAfter(a, b) == a = b \/ Before(a, b)

-----------------------------------------------------------------------------
(* TimeRange hierarchy.  `oid` is the identity of the Python object. *)

DayTimeRangeCheck(date) == ~(date.hour # 0 \/ date.minute # 0 \/ date.second # 0)

MonthTimeRangeCheck(date) == DayTimeRangeCheck(date) /\ ~(date.day # 1)

YearTimeRangeCheck(date) == MonthTimeRangeCheck(date) /\ ~(date.month # 1)

HourTimeRangeCheck(date) == ~(date.minute # 0 \/ date.second # 0)

\* the constructors, for a start_date that passes the class's check
MonthTimeRange(oid, start_date) == [kind |-> "Month", oid |-> oid, start_date |-> start_date]

YearTimeRange(oid, start_date) == [kind |-> "Year", oid |-> oid, start_date |-> start_date]

CustomTimeRange(oid, start_date, end_date) ==
    [kind |-> "Custom", oid |-> oid, start_date |-> start_date, end_date |-> end_date]

HistoricalTimeRange(oid, start_date, end_date) ==
    [kind |-> "Historical", oid |-> oid, start_date |-> start_date, end_date |-> end_date]

DayTimeRange(oid, start_date) ==
    [kind |-> "Day", oid |-> oid, start_date |-> start_date, end_date |-> PlusOneDay(start_date)]

HourTimeRange(oid, start_date) ==
    [kind |-> "Hour", oid |-> oid, start_date |-> start_date, end_date |-> PlusOneHour(start_date)]

NoRange == [kind |-> "None", oid |-> 0]

\* the check() of each class that has one
Check(class, date) ==
    CASE class = "DayTimeRange" -> DayTimeRangeCheck(date)
      [] class = "MonthTimeRange" -> MonthTimeRangeCheck(date)
      [] class = "YearTimeRange" -> YearTimeRangeCheck(date)
      [] class = "HourTimeRange" -> HourTimeRangeCheck(date)

\* the fields set by __init__ once check() has passed
Fields(class, oid, start_date) ==
    CASE class = "DayTimeRange" -> DayTimeRange(oid, start_date)
      [] class = "MonthTimeRange" -> MonthTimeRange(oid, start_date)
      [] class = "YearTimeRange" -> YearTimeRange(oid, start_date)
      [] class = "HourTimeRange" -> HourTimeRange(oid, start_date)

NoConstruction == [called |-> "none", raised |-> "pending", range |-> NoRange]

\* class(start_date): __init__ runs check() first, and check() raises
\* ValueError before any field is set
NewTimeRange(class, oid, start_date) ==
    IF ~Check(class, start_date)
    THEN [called |-> class, raised |-> "ValueError", range |-> NoRange]
    ELSE [called |-> class, raised |-> "none", range |-> Fields(class, oid, start_date)]

\* contains() with start_date <= date <= end_date for the ranges that have an end
ContainsItsEnd(range, date) ==
    CASE range.kind = "Month" ->
            range.start_date.year = date.year /\ range.start_date.month = date.month
      [] range.kind = "Year" -> range.start_date.year = date.year
      [] OTHER -> NotAfter(range.start_date, date) /\ NotAfter(date, range.end_date)

Contains(range, date) ==
    CASE range.kind = "Month" ->
            range.start_date.year = date.year /\ range.start_date.month = date.month
      [] range.kind = "Year" -> range.start_date.year = date.year
      [] OTHER -> NotAfter(range.start_date, date) /\ Before(date, range.end_date)

\* DayTimeRange.month_time_range(), the new object getting identity oid
month_time_range(day, oid) ==
    MonthTimeRange(oid, Date(day.start_date.year, day.start_date.month, 1))

\* DayTimeRange.year_time_range(), the new object getting identity oid
year_time_range(day, oid) == YearTimeRange(oid, Date(day.start_date.year, 1, 1))

\* HourTimeRange.day_time_range(), the new object getting identity oid
day_time_range(hour, oid) ==
    DayTimeRange(oid, Date(hour.start_date.year, hour.start_date.month, hour.start_date.day))

day_of_week(range) == Weekday(range.start_date)

year(day) == day.start_date.year

month(day) == day.start_date.month

hour(range) == range.start_date.hour

-----------------------------------------------------------------------------
(* dict: entries [key, value] in insertion order; keys that are TimeRange  *)
(* objects are equal only when they are the same object (same oid)         *)

DictHas(d, k) == \E i \in 1..Len(d) : d[i].key = k

DictGet(d, k, default) ==
    IF DictHas(d, k) THEN d[CHOOSE i \in 1..Len(d) : d[i].key = k].value ELSE default

DictSet(d, k, v) ==
    IF DictHas(d, k)
    THEN [i \in 1..Len(d) |-> IF d[i].key = k THEN [key |-> d[i].key, value |-> v] ELSE d[i]]
    ELSE Append(d, [key |-> k, value |-> v])

Keys(d) == [i \in 1..Len(d) |-> d[i].key]

Values(d) == [i \in 1..Len(d) |-> d[i].value]

SumOfEach(d) == [i \in 1..Len(d) |-> [key |-> d[i].key, value |-> SumSeq(d[i].value)]]

RECURSIVE MaxSeq(_)
MaxSeq(s) ==
    IF Len(s) = 1 THEN Head(s)
    ELSE IF Head(s) >= MaxSeq(Tail(s)) THEN Head(s) ELSE MaxSeq(Tail(s))

MaxOfEach(d) == [i \in 1..Len(d) |-> [key |-> d[i].key, value |-> MaxSeq(d[i].value)]]

-----------------------------------------------------------------------------
(* CountHistory aggregator *)

\* the loop of _group_by_month from its i-th item on; h objects exist already
RECURSIVE GroupByMonthFrom(_, _, _, _)
GroupByMonthFrom(day_to_count, i, h, month_to_day_counts) ==
    IF i > Len(day_to_count) THEN SumOfEach(month_to_day_counts)
    ELSE LET month_ == month_time_range(day_to_count[i].key, h + 1)
             counts == DictGet(month_to_day_counts, month_, <<>>) \o <<day_to_count[i].value>>
         IN GroupByMonthFrom(day_to_count, i + 1, h + 1,
                             DictSet(month_to_day_counts, month_, counts))

group_by_month(day_to_count, h) == GroupByMonthFrom(day_to_count, 1, h, <<>>)

RECURSIVE GroupByYearFrom(_, _, _, _)
GroupByYearFrom(day_to_count, i, h, year_to_day_counts) ==
    IF i > Len(day_to_count) THEN SumOfEach(year_to_day_counts)
    ELSE LET year_ == year_time_range(day_to_count[i].key, h + 1)
             counts == DictGet(year_to_day_counts, year_, <<>>) \o <<day_to_count[i].value>>
         IN GroupByYearFrom(day_to_count, i + 1, h + 1,
                            DictSet(year_to_day_counts, year_, counts))

group_by_year(day_to_count, h) == GroupByYearFrom(day_to_count, 1, h, <<>>)

RECURSIVE GroupByDayFrom(_, _, _, _)
GroupByDayFrom(hour_to_count, i, h, day_to_hour_counts) ==
    IF i > Len(hour_to_count) THEN SumOfEach(day_to_hour_counts)
    ELSE LET day_ == day_time_range(hour_to_count[i].key, h + 1)
             counts == DictGet(day_to_hour_counts, day_, <<>>) \o <<hour_to_count[i].value>>
         IN GroupByDayFrom(hour_to_count, i + 1, h + 1,
                           DictSet(day_to_hour_counts, day_, counts))

group_by_day(hour_to_count, h) == GroupByDayFrom(hour_to_count, 1, h, <<>>)

\* sorted(items, key=start_date): a stable ascending sort
RECURSIVE InsertByStart(_, _)
InsertByStart(e, s) ==
    IF s = <<>> THEN <<e>>
    ELSE IF NotAfter(Head(s).key.start_date, e.key.start_date)
         THEN <<Head(s)>> \o InsertByStart(e, Tail(s))
         ELSE <<e>> \o s

RECURSIVE SortedByStart(_)
SortedByStart(s) ==
    IF s = <<>> THEN <<>>
    ELSE LET n == Len(s)
         IN InsertByStart(s[n], SortedByStart(SubSeq(s, 1, n - 1)))

RECURSIVE CumsumFrom(_, _, _, _)
CumsumFrom(items, i, cumsum, time_range_to_cumsum) ==
    IF i > Len(items) THEN time_range_to_cumsum
    ELSE CumsumFrom(items, i + 1, cumsum + items[i].value,
                    DictSet(time_range_to_cumsum, items[i].key, cumsum + items[i].value))

CumsumInInsertionOrder(time_range_to_count) == CumsumFrom(time_range_to_count, 1, 0, <<>>)

time_range_to_cumsum(time_range_to_count) ==
    CumsumFrom(SortedByStart(time_range_to_count), 1, 0, <<>>)

RECURSIVE DayOfWeekCountsFrom(_, _, _)
DayOfWeekCountsFrom(day_to_count, i, day_of_week_to_day_counts) ==
    IF i > Len(day_to_count) THEN MaxOfEach(day_of_week_to_day_counts)
    ELSE LET dow == day_of_week(day_to_count[i].key)
             counts == DictGet(day_of_week_to_day_counts, dow, <<>>) \o <<day_to_count[i].value>>
         IN DayOfWeekCountsFrom(day_to_count, i + 1,
                                DictSet(day_of_week_to_day_counts, dow, counts))

extract_day_of_week_to_best_count(day_to_count) == DayOfWeekCountsFrom(day_to_count, 1, <<>>)

RECURSIVE HourAndDayOfWeekCountsFrom(_, _, _)
HourAndDayOfWeekCountsFrom(hour_to_count, i, hour_and_day_of_week_to_counts) ==
    IF i > Len(hour_to_count) THEN MaxOfEach(hour_and_day_of_week_to_counts)
    ELSE LET key == <<hour(hour_to_count[i].key), day_of_week(hour_to_count[i].key)>>
             counts == DictGet(hour_and_day_of_week_to_counts, key, <<>>)
                           \o <<hour_to_count[i].value>>
         IN HourAndDayOfWeekCountsFrom(hour_to_count, i + 1,
                                       DictSet(hour_and_day_of_week_to_counts, key, counts))

extract_hour_and_day_of_week_to_best_count(hour_to_count) ==
    HourAndDayOfWeekCountsFrom(hour_to_count, 1, <<>>)

NoHistory == [type |-> "None"]

\* DailyCountHistory.__init__; h objects exist before the call
DailyCountHistory(day_to_count, h) ==
    LET month_to_count == group_by_month(day_to_count, h)
        year_to_count == group_by_year(day_to_count, h + Len(day_to_count))
    IN [type |-> "Daily",
        day_to_count |-> day_to_count,
        month_to_count |-> month_to_count,
        year_to_count |-> year_to_count,
        total |-> SumSeq(Values(day_to_count)),
        day_to_cumsum |-> time_range_to_cumsum(day_to_count),
        month_to_cumsum |-> time_range_to_cumsum(month_to_count),
        day_of_week_to_best_count |-> extract_day_of_week_to_best_count(day_to_count)]

\* HourlyCountHistory.__init__; h objects exist before the call
HourlyCountHistory(hour_to_count, h) ==
    LET day_to_count == group_by_day(hour_to_count, h)
        daily == DailyCountHistory(day_to_count, h + Len(hour_to_count))
    IN [type |-> "Hourly",
        day_to_count |-> daily.day_to_count,
        month_to_count |-> daily.month_to_count,
        year_to_count |-> daily.year_to_count,
        total |-> daily.total,
        day_to_cumsum |-> daily.day_to_cumsum,
        month_to_cumsum |-> daily.month_to_cumsum,
        day_of_week_to_best_count |-> daily.day_of_week_to_best_count,
        hour_to_count |-> hour_to_count,
        hour_to_cumsum |-> time_range_to_cumsum(hour_to_count),
        hour_and_day_of_week_to_best_count |->
            extract_hour_and_day_of_week_to_best_count(hour_to_count)]

-----------------------------------------------------------------------------
(* Relevant facts *)

TotalRelevantFact(type, target, priority, total) ==
    [type |-> type, target_range |-> target, priority |-> priority, total |-> total]

RankOfTotalRelevantFact(type, target, priority, total, rank_and_ties) ==
    [type |-> type, target_range |-> target, priority |-> priority, total |-> total,
     rank |-> rank_and_ties.rank, ties |-> rank_and_ties.ties]

DayOfWeekRankRelevantFact(type, target, priority, dow, rank_and_ties) ==
    [type |-> type, target_range |-> target, priority |-> priority, day_of_week |-> dow,
     rank |-> rank_and_ties.rank, ties |-> rank_and_ties.ties]

\* history.day_to_count[target_range], for a target that is a key
extract_total(history, target) == DictGet(history.day_to_count, target, -1)

DayOfWeekPopulationWithoutTarget(history, target, same_year) ==
    HumanRankInList(
        extract_total(history, target),
        Values(SelectSeq(history.day_to_count,
                         LAMBDA e : /\ e.key # target
                                    /\ day_of_week(e.key) = day_of_week(target)
                                    /\ (~same_year \/ year(e.key) = year(target)))))

extract_rank_and_ties_of_day_of_week(history, target, same_year) ==
    HumanRankInList(
        extract_total(history, target),
        Values(SelectSeq(history.day_to_count,
                         LAMBDA e : /\ day_of_week(e.key) = day_of_week(target)
                                    /\ (~same_year \/ year(e.key) = year(target)))))

share_year(range_1, range_2) == year(range_1) = year(range_2)

share_month(range_1, range_2) == month(range_1) = month(range_2)

\* comparator(range_1, range_2), the comparator being passed by name
Compare(comparator, range_1, range_2) ==
    CASE comparator = "share_year" -> share_year(range_1, range_2)
      [] comparator = "share_month" -> share_month(range_1, range_2)

get_rank_of_day(history, target, comparator) ==
    HumanRankInList(
        extract_total(history, target),
        Values(SelectSeq(history.day_to_count, LAMBDA e : Compare(comparator, e.key, target))))

get_rank_of_day_in_year(history, target) ==
    get_rank_of_day(history, target, "share_year")

get_rank_of_day_in_month(history, target) ==
    get_rank_of_day(history, target, "share_month")

extract_month_total(history, target) ==
    SumSeq(Values(SelectSeq(history.day_to_count, LAMBDA e : month(e.key) = month(target))))

OnlyStartOutside(among, target) == ~Contains(among, target.start_date)

\* the condition of the raise at the head of extract_relevant_facts
NotContained(among, target) ==
    ~Contains(among, target.start_date) \/ ~Contains(among, target.end_date)

NoFacts == [raised |-> "pending", facts |-> <<>>]

extract_relevant_facts(history, among, target) ==
    IF NotContained(among, target) THEN [raised |-> "ValueError", facts |-> <<>>]
    ELSE IF ~DictHas(history.day_to_count, target)
    THEN [raised |-> "KeyError", facts |-> <<>>]
    ELSE [raised |-> "none",
          facts |-> <<
            TotalRelevantFact("HistoricalTotal", target, 0,
                              extract_total(history, target)),
            DayOfWeekRankRelevantFact("YearDayOfWeekRank", target, 0, day_of_week(target),
                extract_rank_and_ties_of_day_of_week(history, target, TRUE)),
            DayOfWeekRankRelevantFact("HistoricalDayOfWeekRank", target, 0, day_of_week(target),
                extract_rank_and_ties_of_day_of_week(history, target, FALSE)),
            RankOfTotalRelevantFact("DayOfYearRankOfTotal", target, 0,
                extract_total(history, target),
                get_rank_of_day_in_year(history, target)),
            RankOfTotalRelevantFact("DayOfMonthRankOfTotal", target, 0,
                extract_total(history, target),
                get_rank_of_day_in_month(history, target)),
            TotalRelevantFact("MonthTotal", target, 0,
                              extract_month_total(history, target)) >>]

-----------------------------------------------------------------------------
(* Dictionary.  A decoded JSON value is [type, items]: the Python type of  *)
(* the value, and for a value with items() the function from its keys to   *)
(* the function from language codes to sentences.                          *)

Languages == {"fr", "en"}

DictionaryKeys ==
    {"HISTORICAL_TOTAL", "YEAR_TOTAL", "MONTH_TOTAL", "FIRST", "SECOND", "THIRD", "ITH",
     "FEMALE_BEST", "MALE_BEST", "MONDAY", "TUESDAY", "WEDNESDAY", "THURSDAY", "FRIDAY",
     "SATURDAY", "SUNDAY", "SINCE_BEGINING", "SINCE_BEGINING_OF_YEAR",
     "SINCE_BEGINING_OF_MONTH", "DAY_OF_MONTH", "DAY_OF_YEAR", "DAY_OF_HISTORY",
     "MONTH_OF_YEAR", "MONTH_OF_HISTORY", "YEAR_OF_HISTORY", "YESTERDAY", "TODAY"}

\* isinstance(value, dict)
IsInstanceOfDict(value) == value.type = "dict"

\* the types whose values have an items() method: dict, and a mapping that
\* is not a dict (collections.UserDict)
HasItems(value) == value.type \in {"dict", "UserDict"}

check_json(value) ==
    IF IsInstanceOfDict(value)
    THEN [is_ok |-> FALSE, message |-> "json_dictionary must be of type dict"]
    ELSE [is_ok |-> TRUE, message |-> ""]

\* DictionaryKey(dict_key) and Language(language) raise ValueError for a
\* string that is the value of no member
IsEnumValue(items) ==
    \A dict_key \in DOMAIN items :
        /\ dict_key \in DictionaryKeys
        /\ \A language \in DOMAIN items[dict_key] : language \in Languages

NoDictionary == [raised |-> "pending", key_to_language_to_sentence |-> <<>>]

\* Dictionary.from_json
from_json(value) ==
    IF ~check_json(value).is_ok
    THEN [raised |-> "ValueError", key_to_language_to_sentence |-> <<>>]
    ELSE IF ~HasItems(value)
    THEN [raised |-> "AttributeError", key_to_language_to_sentence |-> <<>>]
    ELSE IF ~IsEnumValue(value.items)
    THEN [raised |-> "ValueError", key_to_language_to_sentence |-> <<>>]
    ELSE [raised |-> "none", key_to_language_to_sentence |-> value.items]

-----------------------------------------------------------------------------
(* Rendering.  The value of an expression that builds a string is          *)
(* [raised, string]: the exception it raised, or "none" and the string.    *)

Str(string) == [raised |-> "none", string |-> string]

Raise(exception) == [raised |-> exception, string |-> ""]

\* second, evaluated after first: whatever first raises comes out
After(first, second) == IF first.raised # "none" THEN first ELSE second

\* an f-string whose parts have been evaluated from left to right
RECURSIVE Format(_)
Format(parts) ==
    IF parts = <<>> THEN Str("")
    ELSE After(Head(parts),
               After(Format(Tail(parts)),
                     Str(Head(parts).string \o Format(Tail(parts)).string)))

\* dictionary[key][language]: Dictionary.__getitem__, then the language
Lookup(dictionary, key, language) ==
    IF key \notin DOMAIN dictionary THEN Raise("KeyError")
    ELSE IF language \notin DOMAIN dictionary[key] THEN Raise("KeyError")
    ELSE Str(dictionary[key][language])

\* DayOfWeek.to_dictionary_key
to_dictionary_key(dow) ==
    <<"MONDAY", "TUESDAY", "WEDNESDAY", "THURSDAY", "FRIDAY", "SATURDAY", "SUNDAY">>[dow + 1]

day_of_week_to_name(dow, language, dictionary) ==
    Lookup(dictionary, to_dictionary_key(dow), language)

rank_to_ordinal(rank, language, dictionary) ==
    IF rank = 0 THEN Lookup(dictionary, "FIRST", language)
    ELSE IF rank = 1 THEN Lookup(dictionary, "SECOND", language)
    ELSE IF rank = 2 THEN Lookup(dictionary, "THIRD", language)
    ELSE Format(<<Str(ToString(rank)), Lookup(dictionary, "ITH", language)>>)

get_male_best(rank, language, dictionary) ==
    LET ordinal == rank_to_ordinal(rank, language, dictionary)
        best == Lookup(dictionary, "MALE_BEST", language)
    IN After(ordinal,
             After(best, IF rank # 0 THEN Format(<<ordinal, Str(" "), best>>) ELSE best))

get_male_best_day_of_week_sentence(rank, dow, language, dictionary) ==
    LET day_of_week_name == day_of_week_to_name(dow, language, dictionary)
    IN After(day_of_week_name,
             Format(<<get_male_best(rank, language, dictionary), Str(" "), day_of_week_name>>))

\* DayTimeRange.to_string keeps rendering the day before publication for
\* every earlier or later day
YesterdayForAnyOtherDay(range, language, day_of_publication, dictionary) ==
    IF DateOf(day_of_publication) = DateOf(range.start_date)
    THEN Lookup(dictionary, "TODAY", language)
    ELSE Lookup(dictionary, "YESTERDAY", language)

\* DayTimeRange.to_string
DayTimeRangeToString(range, language, day_of_publication, dictionary) ==
    IF DateOf(day_of_publication) = DateOf(range.start_date)
    THEN Lookup(dictionary, "TODAY", language)
    ELSE IF DateOf(MinusOneDay(day_of_publication)) = DateOf(range.start_date)
    THEN Lookup(dictionary, "YESTERDAY", language)
    ELSE Raise("NotImplementedError")

\* TimeRange.to_string of the class of the range
RangeToString(range, language, day_of_publication, dictionary) ==
    IF range.kind = "Day"
    THEN DayTimeRangeToString(range, language, day_of_publication, dictionary)
    ELSE Raise("NotImplementedError")

TotalFactTypes == {"HistoricalTotal", "YearTotal", "MonthTotal"}

DayOfWeekRankFactTypes ==
    {"HistoricalDayOfWeekRank", "YearDayOfWeekRank", "MonthDayOfWeekRank"}

RankOfTotalFactTypes == {"DayOfMonthRankOfTotal", "DayOfYearRankOfTotal"}

\* end_of_sentence / get_end_of_sentence / _get_rank_end_of_sentence of the class
EndOfSentenceKey(type) ==
    CASE type = "HistoricalTotal" -> "HISTORICAL_TOTAL"
      [] type = "YearTotal" -> "YEAR_TOTAL"
      [] type = "MonthTotal" -> "MONTH_TOTAL"
      [] type = "HistoricalDayOfWeekRank" -> "SINCE_BEGINING"
      [] type = "YearDayOfWeekRank" -> "SINCE_BEGINING_OF_YEAR"
      [] type = "MonthDayOfWeekRank" -> "SINCE_BEGINING_OF_MONTH"
      [] type = "DayOfMonthRankOfTotal" -> "DAY_OF_MONTH"
      [] type = "DayOfYearRankOfTotal" -> "DAY_OF_YEAR"

end_of_sentence(fact, language, dictionary) ==
    Lookup(dictionary, EndOfSentenceKey(fact.type), language)

\* TotalRelevantFact.to_string
TotalToString(fact, language, day_of_publication, dictionary) ==
    Format(<<Str(ToString(fact.total)), Str(" "),
             end_of_sentence(fact, language, dictionary), Str(".")>>)

\* DayOfWeekRankRelevantFact.to_string
DayOfWeekRankToString(fact, language, day_of_publication, dictionary) ==
    LET best_day_of_week_sentence ==
            get_male_best_day_of_week_sentence(fact.rank, fact.day_of_week, language, dictionary)
    IN After(best_day_of_week_sentence,
             Format(<<best_day_of_week_sentence, Str(" "),
                      end_of_sentence(fact, language, dictionary), Str(".")>>))

\* RankOfTotalRelevantFact.to_string
RankOfTotalToString(fact, language, day_of_publication, dictionary) ==
    LET best == get_male_best(fact.rank, language, dictionary)
        end_ == end_of_sentence(fact, language, dictionary)
        string_time_range ==
            RangeToString(fact.target_range, language, day_of_publication, dictionary)
    IN After(best,
             After(end_,
                   After(string_time_range,
                         Format(<<string_time_range, Str(": "), best, Str(" "), end_>>))))

\* fact.to_string(language, day_of_publication, dictionary)
to_string(fact, language, day_of_publication, dictionary) ==
    CASE fact.type \in TotalFactTypes ->
            TotalToString(fact, language, day_of_publication, dictionary)
      [] fact.type \in DayOfWeekRankFactTypes ->
            DayOfWeekRankToString(fact, language, day_of_publication, dictionary)
      [] fact.type \in RankOfTotalFactTypes ->
            RankOfTotalToString(fact, language, day_of_publication, dictionary)

\* max([fact.priority for fact in facts]), for a list that is not empty
MaxPriorityOf(facts) == MaxSeq([i \in 1..Len(facts) |-> facts[i].priority])

EveryFact(facts) == facts

extract_highest_priority_relevant_facts(facts) ==
    SelectSeq(facts, LAMBDA fact : fact.priority = MaxPriorityOf(facts))

NoFact == [type |-> "None"]

NoRendering == [raised |-> "pending", string |-> "", fact |-> NoFact]

\* the indices random.choice may draw; nothing is drawn for an empty list
Choices(relevant_facts) ==
    IF relevant_facts = <<>> THEN {0}
    ELSE 1..Len(extract_highest_priority_relevant_facts(relevant_facts))

\* relevant_facts_to_string, random.choice drawing the fact of index choice
relevant_facts_to_string(relevant_facts, language, day_of_publication, dictionary, choice) ==
    IF relevant_facts = <<>>
    THEN [raised |-> "ValueError", string |-> "", fact |-> NoFact]
    ELSE LET top_relevant_facts == extract_highest_priority_relevant_facts(relevant_facts)
             result == to_string(top_relevant_facts[choice], language, day_of_publication,
                                 dictionary)
         IN [raised |-> result.raised, string |-> result.string,
             fact |-> top_relevant_facts[choice]]

-----------------------------------------------------------------------------
(* Eco-counter ingestion.  A fetched answer is [is_list, items]: whether   *)
(* the decoded body is a list, and its elements, each a tuple of strings.  *)

FIRST_DAY == "09/02/2019"

\* rivoli.utils.parse_mdy: "MM/DD/YYYY" to the datetime of that day at midnight
parse_mdy(s) ==
    CASE s = "09/01/2019" -> Date(2019, 9, 1)
      [] s = "09/02/2019" -> Date(2019, 9, 2)
      [] s = "09/03/2019" -> Date(2019, 9, 3)
      [] s = "09/04/2019" -> Date(2019, 9, 4)

\* int(float(s))
IntOfFloat(s) ==
    CASE s = "0" -> 0
      [] s = "3.0" -> 3
      [] s = "5" -> 5
      [] s = "5.9" -> 5

\* answer[:-1]
AllButLast(l) == SubSeq(l, 1, Len(l) - 1)

\* _check_answer: "ok", the exception it raises, or "rejected" (is_ok False)
check_answer(ans) ==
    IF ~ans.is_list THEN "rejected"
    ELSE IF Len(ans.items) = 0 \/ Len(ans.items[1]) = 0 THEN "IndexError"
    ELSE IF ~(ans.items[1][1] # FIRST_DAY) THEN "rejected"
    ELSE IF {Len(AllButLast(ans.items)[i]) : i \in 1..Len(ans.items) - 1} # {2}
    THEN "rejected"
    ELSE "ok"

pad_answer(items) == <<<<"09/01/2019", "0">>>> \o items

\* _format_pair on a pair of arity 2; the DayTimeRange built gets identity oid
format_pair(pair, oid) ==
    [key |-> DayTimeRange(oid, parse_mdy(pair[1])), value |-> IntOfFloat(pair[2])]

NoDownload == [call |-> "none", raised |-> "pending", history |-> NoHistory]

\* _format_answer; h objects exist before the call
format_answer(ans, h) ==
    LET checked == check_answer(ans)
        pairs == AllButLast(pad_answer(ans.items))
    IN IF checked = "rejected" THEN [raised |-> "ValueError", history |-> NoHistory]
       ELSE IF checked = "IndexError" THEN [raised |-> "IndexError", history |-> NoHistory]
       ELSE IF \E i \in 1..Len(pairs) : Len(pairs[i]) # 2
       THEN [raised |-> "ValueError", history |-> NoHistory]
       ELSE [raised |-> "none",
             history |-> DailyCountHistory(
                 [i \in 1..Len(pairs) |-> format_pair(pairs[i], h + i)], h + Len(pairs))]

\* objects allocated by a _format_answer that builds a history
Allocated(result, ans) == IF result.raised = "none" THEN 3 * Len(ans.items) ELSE 0

\* download_count_history, the source answering status with body ans
download_count_history(status, ans, h) ==
    IF status # 200 THEN format_answer(ans, h)
    ELSE [raised |-> "FailedRequestingEcoCounterError", history |-> NoHistory]

-----------------------------------------------------------------------------
(* Inputs *)

\* 2019-09-02 and 2019-09-30 are Mondays of one month, 2019-09-03 and
\* 2019-12-31 Tuesdays of one year, 2020-09-02 and 2020-09-07 fall in the
\* September of another year, 2020-09-07 being a Monday again.
\* A mapping holds its days in the order of this list, which is not the
\* order of time: 2020-09-07 is inserted before 2020-09-02.
CandidateDays ==
    << Date(2019, 9, 2), Date(2019, 9, 3), Date(2019, 9, 30), Date(2019, 12, 31),
       Date(2020, 9, 7), Date(2020, 9, 2) >>

\* likewise 08:00 of 2019-09-02 is inserted before 00:00 of that day
CandidateHours ==
    << DateTime(2019, 9, 2, 8, 0, 0), DateTime(2019, 9, 2, 0, 0, 0),
       DateTime(2019, 9, 3, 8, 0, 0), DateTime(2020, 9, 2, 23, 0, 0) >>

\* the elements of I in ascending order
Ascending(I) ==
    [k \in 1..Cardinality(I) |-> CHOOSE i \in I : Cardinality({j \in I : j < i}) = k - 1]

\* a mapping whose k-th key is the object k, built on the chosen candidates
MappingOf(type, candidates, I, counts) ==
    [type |-> type,
     items |-> [k \in 1..Cardinality(I) |->
                  [key |-> IF type = "Daily"
                           THEN DayTimeRange(k, candidates[Ascending(I)[k]])
                           ELSE HourTimeRange(k, candidates[Ascending(I)[k]]),
                   value |-> counts[Ascending(I)[k]]]]]

Mappings(type, candidates) ==
    UNION { {MappingOf(type, candidates, I, counts) : counts \in [I -> 0..MaxCount]} :
            I \in {J \in SUBSET (1..Len(candidates)) : Cardinality(J) <= MaxDays} }

AmongRanges(oid) ==
    { MonthTimeRange(oid, Date(2019, 9, 1)), MonthTimeRange(oid, Date(2019, 12, 1)),
      MonthTimeRange(oid, Date(2020, 9, 1)),
      YearTimeRange(oid, Date(2019, 1, 1)), YearTimeRange(oid, Date(2020, 1, 1)),
      CustomTimeRange(oid, Date(2019, 9, 2), Date(2019, 9, 30)),
      CustomTimeRange(oid, Date(2019, 9, 2), Date(2019, 9, 4)),
      HistoricalTimeRange(oid, Date(2019, 9, 2), Date(2020, 9, 8)),
      HistoricalTimeRange(oid, Date(2019, 9, 1), Date(2021, 1, 1)),
      DayTimeRange(oid, Date(2019, 9, 3)) }

\* a target is a key of the history, or a DayTimeRange built for the call
Targets(history, oid) ==
    {history.day_to_count[i].key : i \in 1..Len(history.day_to_count)}
        \cup {DayTimeRange(oid, CandidateDays[1]), DayTimeRange(oid, CandidateDays[3])}

\* a dictionary with a sentence for every key and language
CompleteDictionary ==
    [key \in DictionaryKeys |-> [language \in Languages |-> language \o ":" \o key]]

\* a dictionary without the key YESTERDAY, and with MONTH_TOTAL in French only
IncompleteDictionary ==
    [key \in DictionaryKeys \ {"YESTERDAY"} |->
        IF key = "MONTH_TOTAL" THEN [language \in {"fr"} |-> "fr:" \o key]
        ELSE [language \in Languages |-> language \o ":" \o key]]

Dictionaries == {CompleteDictionary, IncompleteDictionary}

PublicationTimes ==
    { DateTime(2019, 9, 2, 23, 0, 0), DateTime(2019, 9, 3, 8, 0, 0),
      DateTime(2019, 9, 4, 23, 59, 0), DateTime(2019, 9, 5, 0, 0, 0),
      DateTime(2019, 10, 1, 8, 0, 0) }

\* the history of three days the rendered facts are extracted from
RenderedHistory ==
    DailyCountHistory(
        MappingOf("Daily", CandidateDays, {1, 2, 3}, <<2, 1, 2>>).items, 3)

\* the lists extract_relevant_facts returns for the days of that history
ExtractedFacts ==
    { extract_relevant_facts(RenderedHistory,
                             HistoricalTimeRange(10, Date(2019, 9, 1), Date(2021, 1, 1)),
                             RenderedHistory.day_to_count[i].key).facts : i \in 1..3 }

\* facts about one day, of every priority
FactPool ==
    UNION { { TotalRelevantFact("MonthTotal", DayTimeRange(1, Date(2019, 9, 3)), priority, 5),
              RankOfTotalRelevantFact("DayOfMonthRankOfTotal",
                                      DayTimeRange(1, Date(2019, 9, 3)), priority, 5,
                                      [rank |-> 0, ties |-> 0]),
              DayOfWeekRankRelevantFact("MonthDayOfWeekRank",
                                        DayTimeRange(1, Date(2019, 9, 3)), priority, 1,
                                        [rank |-> 3, ties |-> 1]) } :
            priority \in 0..MaxPriority }

FactLists == SeqsUpTo(FactPool, MaxFacts) \cup ExtractedFacts

\* what one key of a decoded JSON object may map to
JsonSentences ==
    { [language \in {"fr"} |-> "aujourd'hui"],
      [language \in {"fr", "en"} |-> language \o ":sentence"],
      [language \in {"de"} |-> "heute"] }

JsonItems ==
    UNION { [keys -> JsonSentences] : keys \in SUBSET {"TODAY", "YESTERDAY", "NOT_A_KEY"} }

JsonValues ==
    { [type |-> type, items |-> items] : type \in {"dict", "UserDict"}, items \in JsonItems }
        \cup { [type |-> type, items |-> <<>>] : type \in {"list", "NoneType", "str"} }

Pairs ==
    { <<>>, <<"09/03/2019">>, <<"09/02/2019", "5">>, <<"09/03/2019", "3.0">>,
      <<"09/04/2019", "0">>, <<"09/04/2019", "5.9", "x">> }

Answers ==
    {[is_list |-> TRUE, items |-> items] : items \in SeqsUpTo(Pairs, MaxAnswerLen)}
        \cup {[is_list |-> FALSE, items |-> <<>>]}

-----------------------------------------------------------------------------
(* Ranking: human_rank_in_list applied to a value and a population *)

RankIdle == quantity = 0 /\ list_ = <<>> /\ rank_result = NoRank

FactsIdle ==
    /\ heap = 0
    /\ base_mapping = [type |-> "None", items |-> <<>>]
    /\ count_history = NoHistory
    /\ among_range = NoRange
    /\ target_range = NoRange
    /\ facts_result = NoFacts

DownloadIdle ==
    /\ status_code = 0
    /\ answer = [is_list |-> FALSE, items |-> <<>>]
    /\ download_result = NoDownload

ConstructIdle == construct_date = Date(2019, 9, 2) /\ construct_result = NoConstruction

JsonIdle ==
    /\ json_dictionary = [type |-> "NoneType", items |-> <<>>]
    /\ from_json_result = NoDictionary

RenderIdle ==
    /\ render_facts = <<>>
    /\ render_language = "fr"
    /\ render_time = Date(2019, 9, 3)
    /\ render_dictionary = CompleteDictionary
    /\ render_result = NoRendering

RankInit ==
    /\ quantity \in 0..MaxValue
    /\ list_ \in SeqsUpTo(0..MaxValue, MaxLen)
    /\ rank_result = NoRank
    /\ FactsIdle
    /\ DownloadIdle
    /\ ConstructIdle
    /\ RenderIdle
    /\ JsonIdle

RankNext == CallHumanRankInList /\ UNCHANGED <<facts_vars, download_vars, construct_vars, render_vars, json_vars>>

RankSpec == RankInit /\ [][RankNext]_vars

-----------------------------------------------------------------------------
(* Histories and facts: a history is built from a mapping, then facts are  *)
(* extracted for a target day among a containing range                     *)

Init ==
    /\ base_mapping \in Mappings("Daily", CandidateDays) \cup Mappings("Hourly", CandidateHours)
    /\ heap = Len(base_mapping.items)
    /\ count_history = NoHistory
    /\ among_range = NoRange
    /\ target_range = NoRange
    /\ facts_result = NoFacts
    /\ RankIdle
    /\ DownloadIdle
    /\ ConstructIdle
    /\ RenderIdle
    /\ JsonIdle

NewDailyCountHistory ==
    /\ count_history.type = "None"
    /\ base_mapping.type = "Daily"
    /\ count_history' = DailyCountHistory(base_mapping.items, heap)
    /\ heap' = heap + 2 * Len(base_mapping.items)
    /\ UNCHANGED <<base_mapping, among_range, target_range, facts_result>>

NewHourlyCountHistory ==
    /\ count_history.type = "None"
    /\ base_mapping.type = "Hourly"
    /\ count_history' = HourlyCountHistory(base_mapping.items, heap)
    /\ heap' = heap + 3 * Len(base_mapping.items)
    /\ UNCHANGED <<base_mapping, among_range, target_range, facts_result>>

ExtractRelevantFacts ==
    /\ count_history.type # "None"
    /\ facts_result.raised = "pending"
    /\ \E among \in AmongRanges(heap + 1), target \in Targets(count_history, heap + 2) :
          /\ among_range' = among
          /\ target_range' = target
          /\ facts_result' = extract_relevant_facts(count_history, among, target)
    /\ heap' = heap + 2
    /\ UNCHANGED <<base_mapping, count_history>>

Next ==
    \/ NewDailyCountHistory /\ UNCHANGED <<rank_vars, download_vars, construct_vars, render_vars, json_vars>>
    \/ NewHourlyCountHistory /\ UNCHANGED <<rank_vars, download_vars, construct_vars, render_vars, json_vars>>
    \/ ExtractRelevantFacts /\ UNCHANGED <<rank_vars, download_vars, construct_vars, render_vars, json_vars>>

Spec == Init /\ [][Next]_vars

-----------------------------------------------------------------------------
(* Ingestion: the source answers, and the answer is formatted *)

DownloadInit ==
    /\ status_code \in {200, 404, 500}
    /\ answer \in Answers
    /\ download_result = NoDownload
    /\ RankIdle
    /\ FactsIdle
    /\ ConstructIdle
    /\ RenderIdle
    /\ JsonIdle

DownloadCountHistory ==
    /\ download_result.call = "none"
    /\ LET result == download_count_history(status_code, answer, heap)
       IN /\ download_result' = [call |-> "download_count_history",
                                 raised |-> result.raised, history |-> result.history]
          /\ heap' = heap + Allocated(result, answer)
    /\ UNCHANGED <<status_code, answer>>

FormatAnswer ==
    /\ download_result.call = "none"
    /\ LET result == format_answer(answer, heap)
       IN /\ download_result' = [call |-> "_format_answer",
                                 raised |-> result.raised, history |-> result.history]
          /\ heap' = heap + Allocated(result, answer)
    /\ UNCHANGED <<status_code, answer>>

DownloadNext ==
    \/ /\ DownloadCountHistory
       /\ UNCHANGED <<rank_vars, base_mapping, count_history, among_range, target_range,
                      facts_result, construct_vars, render_vars, json_vars>>
    \/ /\ FormatAnswer
       /\ UNCHANGED <<rank_vars, base_mapping, count_history, among_range, target_range,
                      facts_result, construct_vars, render_vars, json_vars>>

DownloadSpec == DownloadInit /\ [][DownloadNext]_vars

-----------------------------------------------------------------------------
(* Construction: a time range is constructed from an instant *)

Instants ==
    { ReplaceMicrosecond(DateTime(y, m, d, h, mi, s), us) :
        y \in {2019, 2020}, m \in {1, 9}, d \in {1, 2}, h \in {0, 8}, mi \in {0, 30},
        s \in {0, 15}, us \in {0, 1} }

ConstructInit ==
    /\ construct_date \in Instants
    /\ construct_result = NoConstruction
    /\ RankIdle
    /\ FactsIdle
    /\ DownloadIdle
    /\ RenderIdle
    /\ JsonIdle

Allocates(result) == IF result.raised = "none" THEN 1 ELSE 0

Construct(class) ==
    /\ construct_result.called = "none"
    /\ construct_result' = NewTimeRange(class, heap + 1, construct_date)
    /\ heap' = heap + Allocates(construct_result')
    /\ UNCHANGED <<construct_date, rank_vars, base_mapping, count_history, among_range,
                   target_range, facts_result, download_vars, render_vars, json_vars>>

NewDayTimeRange == Construct("DayTimeRange")

NewMonthTimeRange == Construct("MonthTimeRange")

NewYearTimeRange == Construct("YearTimeRange")

NewHourTimeRange == Construct("HourTimeRange")

ConstructNext ==
    \/ NewDayTimeRange
    \/ NewMonthTimeRange
    \/ NewYearTimeRange
    \/ NewHourTimeRange

ConstructSpec == ConstructInit /\ [][ConstructNext]_vars

-----------------------------------------------------------------------------
(* Publication: a list of facts is rendered as one sentence *)

RenderInit ==
    /\ render_facts \in FactLists
    /\ render_language \in Languages
    /\ render_time \in PublicationTimes
    /\ render_dictionary \in Dictionaries
    /\ render_result = NoRendering
    /\ RankIdle
    /\ FactsIdle
    /\ DownloadIdle
    /\ ConstructIdle
    /\ JsonIdle

RelevantFactsToString ==
    /\ render_result.raised = "pending"
    /\ \E choice \in Choices(render_facts) :
          render_result' = relevant_facts_to_string(render_facts, render_language,
                                                    render_time, render_dictionary, choice)
    /\ UNCHANGED <<render_facts, render_language, render_time, render_dictionary>>

RenderNext ==
    RelevantFactsToString
        /\ UNCHANGED <<rank_vars, facts_vars, download_vars, construct_vars, json_vars>>

RenderSpec == RenderInit /\ [][RenderNext]_vars

-----------------------------------------------------------------------------
(* Dictionary loading: a decoded JSON value is turned into a Dictionary *)

JsonInit ==
    /\ json_dictionary \in JsonValues
    /\ from_json_result = NoDictionary
    /\ RankIdle
    /\ FactsIdle
    /\ DownloadIdle
    /\ ConstructIdle
    /\ RenderIdle

FromJson ==
    /\ from_json_result.raised = "pending"
    /\ from_json_result' = from_json(json_dictionary)
    /\ UNCHANGED json_dictionary

JsonNext ==
    FromJson
        /\ UNCHANGED <<rank_vars, facts_vars, download_vars, construct_vars, render_vars>>

JsonSpec == JsonInit /\ [][JsonNext]_vars

-----------------------------------------------------------------------------
(* Properties *)

Greater(l, v) == CountIn(l, LAMBDA x : x > v)

EqualTo(l, v) == CountIn(l, LAMBDA x : x = v)

\* C1: human_rank_in_list(v, pop) returns as rank the number of elements of
\* pop strictly greater than v (0-based, rank 0 when nothing exceeds v), and
\* the rank is the same for every permutation of pop.
C1_RankIsNumberOfGreater ==
    rank_result.done =>
        /\ rank_result.rank = Greater(list_, quantity)
        /\ \A p \in Permutations_(list_) :
              HumanRankInList(quantity, p).rank = rank_result.rank

\* C9: the tie count returned by human_rank_in_list(v, pop) is the number of
\* elements of pop equal to v, minus 1; it is -1 when no element equals v.
C9_TiesIsNumberOfEqualMinusOne ==
    rank_result.done => rank_result.ties = EqualTo(list_, quantity) - 1

C9_Witness ==
    /\ rank_result.done
    /\ Len(list_) >= 2
    /\ EqualTo(list_, quantity) = 0
    /\ rank_result.ties = -1

TargetIsKey == DictHas(count_history.day_to_count, target_range)

\* C2: extract_relevant_facts raises the validation error and returns no
\* facts whenever the containing range does not contain the target day's
\* start or does not contain its end; when it contains both and the target
\* day is a key of the history, it returns the list of facts.
C2_FactsOnlyInsideContainingRange ==
    facts_result.raised # "pending" =>
        /\ (\/ ~Contains(among_range, target_range.start_date)
            \/ ~Contains(among_range, target_range.end_date))
              => (facts_result.raised = "ValueError" /\ facts_result.facts = <<>>)
        /\ (/\ Contains(among_range, target_range.start_date)
            /\ Contains(among_range, target_range.end_date)
            /\ TargetIsKey)
              => (facts_result.raised = "none" /\ Len(facts_result.facts) = 6)

C2_Witness ==
    /\ facts_result.raised = "ValueError"
    /\ TargetIsKey
    /\ Contains(among_range, target_range.start_date)
    /\ ~Contains(among_range, target_range.end_date)

SameCalendarMonth(day, target) == year(day) = year(target) /\ month(day) = month(target)

CountsOfCalendarMonth(target) ==
    Values(SelectSeq(count_history.day_to_count, LAMBDA e : SameCalendarMonth(e.key, target)))

FactOfType(type) ==
    facts_result.facts[CHOOSE i \in 1..Len(facts_result.facts) :
                           facts_result.facts[i].type = type]

\* C3: the day-of-month rank fact ranks the target day's count against the
\* history days of the target's calendar month only (same year and same
\* month); the same month of another year is not in the population.
C3_DayOfMonthRankWithinCalendarMonth ==
    facts_result.raised = "none" =>
        LET fact == FactOfType("DayOfMonthRankOfTotal")
            expected == HumanRankInList(fact.total, CountsOfCalendarMonth(target_range))
        IN fact.rank = expected.rank /\ fact.ties = expected.ties

\* C4: the month total fact carries the sum of the counts of exactly the
\* history days of the target day's calendar month (same year and month).
C4_MonthTotalOfCalendarMonth ==
    facts_result.raised = "none" =>
        FactOfType("MonthTotal").total = SumSeq(CountsOfCalendarMonth(target_range))

MonthStart(day) == Date(day.start_date.year, day.start_date.month, 1)

YearStart(day) == Date(day.start_date.year, 1, 1)

DayStart(hour_) == Date(hour_.start_date.year, hour_.start_date.month, hour_.start_date.day)

\* coarse has one key per distinct coarser range of the base keys, and the
\* value at a key is the sum of the base counts that derive that key
IsRollUp(coarse, base, StartOf(_)) ==
    /\ \A i, j \in 1..Len(coarse) :
          coarse[i].key.start_date = coarse[j].key.start_date => i = j
    /\ {coarse[i].key.start_date : i \in 1..Len(coarse)}
          = {StartOf(base[k].key) : k \in 1..Len(base)}
    /\ \A i \in 1..Len(coarse) :
          coarse[i].value
              = SumSeq(Values(SelectSeq(base,
                    LAMBDA b : StartOf(b.key) = coarse[i].key.start_date)))

\* C5: once a history is built, month_to_count (year_to_count) has exactly
\* one key per distinct calendar month (year) of the days, ranges with the
\* same start being the same range, each holding the sum of the counts of
\* the days of that month (year); the day mapping derived by an hourly
\* history has one key per distinct day, holding the sum of its hours.
C5_RollUpsGroupByCoarserRange ==
    count_history.type # "None" =>
        /\ IsRollUp(count_history.month_to_count, count_history.day_to_count, MonthStart)
        /\ IsRollUp(count_history.year_to_count, count_history.day_to_count, YearStart)
        /\ count_history.type = "Hourly" =>
              IsRollUp(count_history.day_to_count, count_history.hour_to_count, DayStart)

\* C6: download_count_history raises the upstream fetch error exactly when
\* the source answers with a status other than 200.
C6_FetchErrorIffStatusNot200 ==
    download_result.call = "download_count_history" =>
        (download_result.raised = "FailedRequestingEcoCounterError" <=> status_code # 200)

WellFormed(ans) ==
    ans.is_list /\ Len(ans.items) > 0 /\ \A i \in 1..Len(ans.items) : Len(ans.items[i]) = 2

\* C7: ingestion accepts a fetched list of pairs whose first pair carries
\* the known first day of data, 09/02/2019, and rejects with a validation
\* error a list whose first pair carries any other date.
C7_FirstDayExpected ==
    (download_result.call = "_format_answer" /\ WellFormed(answer)) =>
        IF answer.items[1][1] = "09/02/2019"
        THEN download_result.raised = "none" /\ download_result.history.type = "Daily"
        ELSE download_result.raised = "ValueError"

\* C8: if any element of the fetched answer, at any position, is a pair of
\* arity other than 2, _format_answer fails with a validation error and no
\* CountHistory is built.
C8_MalformedPairRejected ==
    (/\ download_result.call = "_format_answer"
     /\ answer.is_list
     /\ \E i \in 1..Len(answer.items) : Len(answer.items[i]) # 2)
        => (download_result.raised = "ValueError" /\ download_result.history = NoHistory)

RankFactTypes ==
    {"YearDayOfWeekRank", "HistoricalDayOfWeekRank", "DayOfYearRankOfTotal",
     "DayOfMonthRankOfTotal"}

RankFacts ==
    {facts_result.facts[i] : i \in {j \in 1..Len(facts_result.facts) :
                                      facts_result.facts[j].type \in RankFactTypes}}

\* C10: every rank fact returned by extract_relevant_facts has ties >= 0:
\* the target day's own count is in each population it is ranked in.
C10_RankFactsHaveNoNegativeTies ==
    facts_result.raised = "none" =>
        /\ Cardinality(RankFacts) = 4
        /\ \A fact \in RankFacts : fact.ties >= 0

C10_Witness ==
    /\ facts_result.raised = "none"
    /\ \E fact \in RankFacts : fact.ties = 0
    /\ \E fact \in RankFacts : fact.ties >= 1

CumsumMappings ==
    IF count_history.type = "Hourly"
    THEN {count_history.day_to_cumsum, count_history.month_to_cumsum,
          count_history.hour_to_cumsum}
    ELSE {count_history.day_to_cumsum, count_history.month_to_cumsum}

\* the cumulative sums of a mapping, read by ascending start instant
ReadByStart(mapping) == Values(SortedByStart(mapping))

\* C11: for non-negative counts, each cumulative-sum mapping of a history
\* (day_to_cumsum, month_to_cumsum, hour_to_cumsum of an hourly history),
\* read in ascending start-instant order, is non-decreasing and, when
\* non-empty, ends with the history's total.
C11_CumsumsGrowToTotal ==
    count_history.type # "None" =>
        \A mapping \in CumsumMappings :
            LET sums == ReadByStart(mapping)
            IN /\ \A i \in 1..Len(sums) - 1 : sums[i] <= sums[i + 1]
               /\ sums # <<>> => sums[Len(sums)] = count_history.total

C11_Witness ==
    /\ count_history.type = "Daily"
    /\ Len(base_mapping.items) >= 2
    /\ Before(base_mapping.items[2].key.start_date, base_mapping.items[1].key.start_date)
    /\ base_mapping.items[2].value > 0
    /\ base_mapping.items[1].value > 0
    /\ ReadByStart(count_history.day_to_cumsum)[Len(base_mapping.items)] = count_history.total

\* every time-of-day field of the instant is zero
TimeOfDayIsZero(date) ==
    date.hour = 0 /\ date.minute = 0 /\ date.second = 0 /\ date.microsecond = 0

\* the instant is the very start of the unit the class stands for
AlignedFor(class, date) ==
    CASE class = "DayTimeRange" -> TimeOfDayIsZero(date)
      [] class = "MonthTimeRange" -> TimeOfDayIsZero(date) /\ date.day = 1
      [] class = "YearTimeRange" -> TimeOfDayIsZero(date) /\ date.day = 1 /\ date.month = 1

\* C12: constructing a Day range fails with the validation error when any
\* time-of-day field of the instant is non-zero, a Month range when the
\* instant is not Day-aligned or its day is not 1, a Year range when it is
\* not Month-aligned or its month is not January; construction succeeds
\* otherwise, and a failed construction produces no range.
C12_ConstructionFailsUnlessAligned ==
    construct_result.called \in {"DayTimeRange", "MonthTimeRange", "YearTimeRange"} =>
        IF AlignedFor(construct_result.called, construct_date)
        THEN /\ construct_result.raised = "none"
             /\ construct_result.range.start_date = construct_date
        ELSE /\ construct_result.raised = "ValueError"
             /\ construct_result.range = NoRange

Priorities(facts) == {facts[i].priority : i \in 1..Len(facts)}

\* C13: relevant_facts_to_string on an empty list fails with the validation
\* error and returns no sentence; on a non-empty list the fact it renders is
\* a fact of the list whose priority is the maximum of the list, and a list
\* of one fact renders that fact.
C13_RendersAFactOfHighestPriority ==
    render_result.raised # "pending" =>
        /\ render_facts = <<>> =>
              (render_result.raised = "ValueError" /\ render_result.string = "")
        /\ render_facts # <<>> =>
              /\ \E i \in 1..Len(render_facts) : render_facts[i] = render_result.fact
              /\ \A priority \in Priorities(render_facts) :
                    priority <= render_result.fact.priority
              /\ render_result.raised # "ValueError"
              /\ render_result.raised = "none" =>
                    render_result.string =
                        to_string(render_result.fact, render_language, render_time,
                                  render_dictionary).string
        /\ Len(render_facts) = 1 => render_result.fact = render_facts[1]

C13_Witness ==
    /\ render_result.raised = "none"
    /\ Len(render_facts) = 3
    /\ render_facts[1].priority > render_facts[2].priority
    /\ render_facts[3] = render_result.fact
    /\ render_facts[3] # render_facts[1]
    /\ render_result.string = "en:TODAY: en:MALE_BEST en:DAY_OF_MONTH"

\* a JSON object whose keys are dictionary keys and whose values map
\* language codes to sentences
WellFormedMapping(value) ==
    /\ value.type = "dict"
    /\ \A key \in DOMAIN value.items :
          /\ key \in DictionaryKeys
          /\ DOMAIN value.items[key] \subseteq Languages

\* C14: Dictionary.from_json returns a Dictionary holding the mapping when
\* its input is a well-formed mapping, and fails with the validation error
\* when its input is not a mapping.
C14_FromJsonAcceptsMappings ==
    from_json_result.raised # "pending" =>
        /\ WellFormedMapping(json_dictionary) =>
              /\ from_json_result.raised = "none"
              /\ from_json_result.key_to_language_to_sentence = json_dictionary.items
        /\ ~HasItems(json_dictionary) => from_json_result.raised = "ValueError"

\* the day is the last whole day inside the containing range
IsLastDayOf(among, day) ==
    CASE among.kind \in {"Custom", "Historical"} ->
            /\ NotAfter(among.start_date, day.start_date)
            /\ day.end_date = among.end_date
      [] among.kind = "Month" ->
            /\ day.start_date.year = among.start_date.year
            /\ day.start_date.month = among.start_date.month
            /\ day.start_date.day = DaysInMonth(day.start_date.year, day.start_date.month)
      [] among.kind = "Year" ->
            /\ day.start_date.year = among.start_date.year
            /\ day.start_date.month = 12
            /\ day.start_date.day = 31
      [] OTHER -> FALSE

\* C15: extract_relevant_facts raises the validation error, and returns no
\* facts, when the target day is the last day of the containing range: the
\* day whose end is the end e of a Custom/Historical range [s, e), the last
\* day of the month of a Month range, the last day of the year of a Year
\* range.
C15_LastDayOfRangeRejected ==
    (facts_result.raised # "pending" /\ IsLastDayOf(among_range, target_range)) =>
        (facts_result.raised = "ValueError" /\ facts_result.facts = <<>>)

C15_Witness ==
    /\ facts_result.raised = "ValueError"
    /\ among_range.kind = "Historical"
    /\ IsLastDayOf(among_range, target_range)
    /\ TargetIsKey
    /\ extract_total(count_history, target_range) > 0

\* calendar days from the target day of the fact to the day of publication
DaysAfterTarget(fact, day_of_publication) ==
    ToOrdinal(day_of_publication) - ToOrdinal(fact.target_range.start_date)

\* C16: with a complete dictionary, a day-of-year or day-of-month rank fact
\* renders when the publication instant is on the target day or on the
\* calendar day after it and raises NotImplementedError for every other
\* publication day, while total facts and day-of-week rank facts render for
\* every publication day; so for the six facts of extract_relevant_facts and
\* a publication day two or more days from the target, relevant_facts_to_string
\* returns a sentence for one draw and raises NotImplementedError for another.
C16_DayRankFactsRenderOnlyNearTarget ==
    /\ (/\ render_result.raised # "pending"
        /\ render_facts # <<>>
        /\ render_dictionary = CompleteDictionary) =>
           /\ render_result.fact.type \in {"DayOfYearRankOfTotal", "DayOfMonthRankOfTotal"} =>
                 IF DaysAfterTarget(render_result.fact, render_time) \in {0, 1}
                 THEN render_result.raised = "none" /\ render_result.string # ""
                 ELSE render_result.raised = "NotImplementedError"
           /\ render_result.fact.type \in TotalFactTypes \cup DayOfWeekRankFactTypes =>
                 (render_result.raised = "none" /\ render_result.string # "")
    /\ (/\ render_facts \in ExtractedFacts
        /\ render_dictionary = CompleteDictionary
        /\ DaysAfterTarget(render_facts[1], render_time) \notin {-1, 0, 1}) =>
           /\ Len(render_facts) = 6
           /\ \E choice \in Choices(render_facts) :
                 relevant_facts_to_string(render_facts, render_language, render_time,
                                          render_dictionary, choice).raised = "none"
           /\ \E choice \in Choices(render_facts) :
                 relevant_facts_to_string(render_facts, render_language, render_time,
                                          render_dictionary, choice).raised
                     = "NotImplementedError"

C16_Witness ==
    /\ render_facts \in ExtractedFacts
    /\ render_dictionary = CompleteDictionary
    /\ DaysAfterTarget(render_facts[1], render_time) >= 2
    /\ render_result.fact.type = "DayOfYearRankOfTotal"
    /\ render_result.raised = "NotImplementedError"

====
